---- MODULE Spec2Model ----
(***************************************************************************)
(* Certificate-lifecycle notifications of lemur: the eligibility scans,    *)
(* the interval matching and the plugin dispatch of                        *)
(* lemur/notifications/messaging.py, and the default-notification          *)
(* creation of lemur/notifications/service.py.                             *)
(*                                                                         *)
(* Time is measured in whole days: a certificate carries `days`, the value *)
(* of (not_after - now).days, and `now` does not move during one call.     *)
(* A handler is one action: it reads the tables, and leaves its return     *)
(* value, whether it raised, the plugin sends it made and the metrics it   *)
(* emitted in ret, raised, sends and metrics.                              *)
(***************************************************************************)
EXTENDS Integers, Sequences, FiniteSets, TLC

VARIABLES
    certificates,   \* the Certificate table, in id order (windowed_query orders by id)
    notifications,  \* the Notification table, in id order
    endpoints,      \* the Endpoint table, in id order
    fn,             \* the handler called last
    args,           \* its arguments
    ret,            \* its return value
    raised,         \* TRUE when it ended with an exception reaching the caller
    sends,          \* the plugin send() calls it made, in order
    metrics         \* the metrics.send() calls it made, in order

vars == <<certificates, notifications, endpoints, fn, args, ret, raised, sends, metrics>>

----------------------------------------------------------------------------
\* Bounds of the model.

\* Largest number of rows of the Certificate table.
MaxCerts == 2
\* Largest number of rows of the Notification table (and of a certificate's list).
MaxNotifs == 2
\* Largest configured interval.
MaxInterval == 2
\* Largest number of CA certificates in the authority scan.
MaxCACerts == 3
MaxEndpoints == 2

----------------------------------------------------------------------------
\* Values of the program.

None == "None"
True == "True"
SUCCESS_METRIC_STATUS == "success"
FAILURE_METRIC_STATUS == "failure"
EmailSlug == "email-notification"
TestSlug == "test-notification"
\* LEMUR_DEFAULT_NOTIFICATION_PLUGIN, at its default.
LEMUR_DEFAULT_NOTIFICATION_PLUGIN == EmailSlug
\* LEMUR_SECURITY_TEAM_EMAIL: a list of addresses.
LEMUR_SECURITY_TEAM_EMAIL == <<"security@example.com">>
\* LEMUR_AUTHORITY_CERT_EXPIRATION_EMAIL_INTERVALS, at its default.
AuthorityExpirationIntervals == {365, 180}
\* The lookahead of get_certificates, in days.
LookaheadDays == 90
DaysPerWeek == 7
DaysPerMonth == 30

Units == {"days", "weeks", "months", "years"}
Range(s) == {s[i] : i \in DOMAIN s}

\* A set as a list, in some fixed order (list(set(...)) of the code).
RECURSIVE SetToSeq(_)
SetToSeq(S) ==
    IF S = {} THEN <<>>
    ELSE LET x == CHOOSE x \in S : TRUE IN <<x>> \o SetToSeq(S \ {x})

\* One plugin option, {"name": ..., "value": ...}.
Opt(name, value) == [name |-> name, value |-> value]

\* The options of an expiration notification. The comma-delimited recipients
\* string is kept as the list of its addresses.
ExpirationOptions(interval, unit, recipients) ==
    <<Opt("interval", interval), Opt("unit", unit), Opt("recipients", recipients)>>

\* lemur.plugins.utils.get_plugin_option: the value of the first option
\* named `name`, None when there is none.
get_plugin_option(name, options) ==
    IF \E i \in DOMAIN options : options[i].name = name
    THEN LET i == CHOOSE i \in DOMAIN options :
                    /\ options[i].name = name
                    /\ \A j \in DOMAIN options : options[j].name = name => i <= j
         IN options[i].value
    ELSE None

\* A row of the Notification table.
Notification(label, active, options, slug) ==
    [label |-> label, active |-> active, options |-> options, slug |-> slug,
     enable_rotation |-> FALSE]

\* A row of the Certificate table. A CA certificate has a root authority and
\* no issuing authority.
Certificate(name, owner, days, notify, expired, revoked, ca, notifs) ==
    [name |-> name, owner |-> owner, days |-> days, notify |-> notify,
     expired |-> expired, revoked |-> revoked,
     root_authority_id |-> IF ca THEN 1 ELSE 0,
     authority_id |-> IF ca THEN 0 ELSE 1,
     notifications |-> notifs]

----------------------------------------------------------------------------
\* Interval matching.

\* The interval of a notification in days, for a recognized unit.
IntervalInDays_months31(interval, unit) ==
    IF unit = "weeks" THEN interval * DaysPerWeek
    ELSE IF unit = "months" THEN interval * 31
    ELSE interval

IntervalInDays(interval, unit) ==
    IF unit = "weeks" THEN interval * DaysPerWeek
    ELSE IF unit = "months" THEN interval * DaysPerMonth
    ELSE interval

\* needs_expiration_notification, from the i-th notification of the
\* certificate on, with `acc` the list built so far. The result is
\* [raised, value]: raised when a unit is none of days, weeks, months.
RECURSIVE needs_loop(_, _, _)
needs_loop(certificate, i, acc) ==
    IF i > Len(certificate.notifications)
    THEN [raised |-> FALSE, value |-> acc]
    ELSE LET id == certificate.notifications[i]
             notification == notifications[id]
         IN IF ~notification.active \/ notification.options = <<>>
            THEN needs_loop(certificate, i + 1, acc)
            ELSE LET interval == get_plugin_option("interval", notification.options)
                     unit == get_plugin_option("unit", notification.options)
                 IN IF unit \notin {"weeks", "months", "days"}
                    THEN [raised |-> TRUE, value |-> <<>>]
                    ELSE IF certificate.days = IntervalInDays(interval, unit)
                         THEN needs_loop(certificate, i + 1, Append(acc, id))
                         ELSE needs_loop(certificate, i + 1, acc)

needs_expiration_notification_lenient(certificate) ==
    LET r == needs_loop(certificate, 1, <<>>)
    IN IF r.raised THEN [raised |-> FALSE, value |-> <<>>] ELSE r

needs_expiration_notification(certificate) == needs_loop(certificate, 1, <<>>)

----------------------------------------------------------------------------
\* Dispatch.

\* One call of a plugin's send(): the plugin, the function that made the call,
\* the notification whose plugin it is (None for the default plugin), the
\* arguments, and whether send() returned (ok) or raised.
PluginSend(plugin, by, label, type, data, targets, options, ok) ==
    [plugin |-> plugin, by |-> by, notification |-> label, type |-> type,
     data |-> data, targets |-> targets, options |-> options, ok |-> ok]

\* One call of metrics.send("notification", "counter", 1, metric_tags=...),
\* and the function that made it.
Metric(by, status, event_type, plugin) ==
    [by |-> by, status |-> status, event_type |-> event_type, plugin |-> plugin]

\* What a function leaves behind.
Outcome(r, s, m) == [ret |-> r, raised |-> FALSE, sends |-> s, metrics |-> m]
Raise == [ret |-> None, raised |-> TRUE, sends |-> <<>>, metrics |-> <<>>]

\* send_default_notification; `ok` is whether the default plugin's send()
\* returns.
send_default_notification_propagates(notification_type, data, targets, notification_options, ok) ==
    LET slug == LEMUR_DEFAULT_NOTIFICATION_PLUGIN
        call == PluginSend(slug, "send_default_notification", None, notification_type,
                           data, targets, notification_options, ok)
    IN IF ok
       THEN Outcome(True, <<call>>, <<Metric("send_default_notification", SUCCESS_METRIC_STATUS,
                                      notification_type, slug)>>)
       ELSE [ret |-> None, raised |-> TRUE, sends |-> <<call>>, metrics |-> <<>>]

send_default_notification(notification_type, data, targets, notification_options, ok) ==
    LET slug == LEMUR_DEFAULT_NOTIFICATION_PLUGIN
        status == IF ok THEN SUCCESS_METRIC_STATUS ELSE FAILURE_METRIC_STATUS
        call == PluginSend(slug, "send_default_notification", None, notification_type,
                           data, targets, notification_options, ok)
    IN Outcome(IF status = SUCCESS_METRIC_STATUS THEN True ELSE None,
               <<call>>,
               <<Metric("send_default_notification", status, notification_type, slug)>>)

\* send_plugin_notification; oc[1] is whether the notification plugin's
\* send() returns, oc[2] whether the default plugin's does.
send_plugin_notification_no_secondary(event_type, data, recipients, notification, oc) ==
    LET slug == notification.slug
        call == PluginSend(slug, "send_plugin_notification", notification.label,
                           event_type, data, recipients, notification.options, oc[1])
        status == IF oc[1] THEN SUCCESS_METRIC_STATUS ELSE FAILURE_METRIC_STATUS
    IN Outcome(IF status = SUCCESS_METRIC_STATUS THEN True ELSE None,
               <<call>>, <<Metric("send_plugin_notification", status, event_type, slug)>>)

send_plugin_notification_success_on_send(event_type, data, recipients, notification, oc) ==
    LET slug == notification.slug
        call == PluginSend(slug, "send_plugin_notification", notification.label,
                           event_type, data, recipients, notification.options, oc[1])
        secondary == oc[1] /\ slug # EmailSlug
        second == send_default_notification(event_type, data, recipients,
                                            notification.options, oc[2])
        status == IF oc[1] THEN SUCCESS_METRIC_STATUS ELSE FAILURE_METRIC_STATUS
    IN Outcome(IF status = SUCCESS_METRIC_STATUS THEN True ELSE None,
               <<call>> \o (IF secondary THEN second.sends ELSE <<>>),
               (IF secondary THEN second.metrics ELSE <<>>)
                   \o <<Metric("send_plugin_notification", status, event_type, slug)>>)

send_plugin_notification(event_type, data, recipients, notification, oc) ==
    LET slug == notification.slug
        call == PluginSend(slug, "send_plugin_notification", notification.label,
                           event_type, data, recipients, notification.options, oc[1])
        secondary == oc[1] /\ slug # EmailSlug
        second == send_default_notification(event_type, data, recipients,
                                            notification.options, oc[2])
        status == IF ~oc[1] THEN FAILURE_METRIC_STATUS
                  ELSE IF slug # EmailSlug
                       THEN IF second.ret = True THEN SUCCESS_METRIC_STATUS
                                                 ELSE FAILURE_METRIC_STATUS
                       ELSE SUCCESS_METRIC_STATUS
    IN Outcome(IF status = SUCCESS_METRIC_STATUS THEN True ELSE None,
               <<call>> \o (IF secondary THEN second.sends ELSE <<>>),
               (IF secondary THEN second.metrics ELSE <<>>)
                   \o <<Metric("send_plugin_notification", status, event_type, slug)>>)

\* get_recipients of the notification plugin: the recipients of the options
\* and the additional ones, without duplicates.
get_recipients(options, additional_recipients) ==
    SetToSeq(Range(get_plugin_option("recipients", options))
                 \cup Range(additional_recipients))

\* certificate_notification_output_schema.dump(certificate).data, as far as
\* the notifications read it.
dump(c) == [id |-> c, name |-> certificates[c].name, owner |-> certificates[c].owner]

\* The notifications that are active and configured.
ActiveNotifications(list) == SelectSeq(list, LAMBDA n : n.active /\ n.options # <<>>)

\* send_plugin_notification_with_email_fallback, with `list` the
\* notification rows given.
send_plugin_notification_with_email_fallback_owner_only(data, list, notification_type, oc) ==
    LET active_notifications == ActiveNotifications(list)
        data2 == [security_email |-> LEMUR_SECURITY_TEAM_EMAIL] @@ data
    IN IF active_notifications = <<>>
       THEN send_default_notification(notification_type, data2, <<data2.owner>>, None, oc[1])
       ELSE LET notification == active_notifications[1]
                email_recipients ==
                    get_recipients(notification.options, data2.security_email)
            IN send_plugin_notification(notification_type, data2, email_recipients,
                                        notification, oc)

send_plugin_notification_with_email_fallback(data, list, notification_type, oc) ==
    LET active_notifications == ActiveNotifications(list)
        data2 == [security_email |-> LEMUR_SECURITY_TEAM_EMAIL] @@ data
    IN IF active_notifications = <<>>
       THEN send_default_notification(notification_type, data2,
                                      <<data2.owner>> \o data2.security_email,
                                      None, oc[1])
       ELSE LET notification == active_notifications[1]
                email_recipients ==
                    get_recipients(notification.options, data2.security_email)
            IN send_plugin_notification(notification_type, data2, email_recipients,
                                        notification, oc)

\* A handler call that leaves `r` behind.
Called(name, a, r) ==
    /\ fn' = name
    /\ args' = a
    /\ ret' = r.ret
    /\ raised' = r.raised
    /\ sends' = r.sends
    /\ metrics' = r.metrics
    /\ UNCHANGED <<certificates, notifications, endpoints>>

SendDefaultNotification(notification_type, data, targets, notification_options, ok) ==
    Called("send_default_notification",
           [notification_type |-> notification_type, data |-> data,
            targets |-> targets],
           send_default_notification(notification_type, data, targets,
                                     notification_options, ok))

SendPluginNotification(event_type, data, recipients, notification, oc) ==
    Called("send_plugin_notification",
           [event_type |-> event_type, data |-> data, recipients |-> recipients,
            notification |-> notification],
           send_plugin_notification(event_type, data, recipients, notification, oc))

SendPluginNotificationWithEmailFallback(data, list, notification_type, oc) ==
    Called("send_plugin_notification_with_email_fallback",
           [data |-> data, notifications |-> list,
            notification_type |-> notification_type],
           send_plugin_notification_with_email_fallback(data, list, notification_type, oc))

\* The handler, called on the c-th certificate of the table.
NeedsExpirationNotification(c) ==
    LET r == needs_expiration_notification(certificates[c])
    IN Called("needs_expiration_notification", [certificate |-> c],
              [ret |-> r.value, raised |-> r.raised, sends |-> <<>>, metrics |-> <<>>])

----------------------------------------------------------------------------
\* Eligibility scans.

\* A name is a list of characters; ilike compares without case.
Lower(ch) ==
    CASE ch = "A" -> "a" [] ch = "P" -> "p" [] ch = "I" -> "i" [] OTHER -> ch

\* name ILIKE '%e%': e occurs in name, whatever the case.
ilike(name, e) ==
    \E k \in 0 .. Len(name) - Len(e) :
        \A j \in 1 .. Len(e) : Lower(name[k + j]) = Lower(e[j])

\* The ids in S as a list, in id order.
RECURSIVE InIdOrder(_)
InIdOrder(S) ==
    IF S = {} THEN <<>>
    ELSE LET m == CHOOSE m \in S : \A x \in S : m <= x IN <<m>> \o InIdOrder(S \ {m})

\* The query of get_certificates: not_after within the lookahead, notify,
\* not expired, not revoked, and a name matching none of the excludes.
CertificateQuery_no_revoked_filter(exclude) ==
    {c \in DOMAIN certificates :
        /\ certificates[c].days <= LookaheadDays
        /\ certificates[c].notify
        /\ ~certificates[c].expired
        /\ \A k \in DOMAIN exclude : ~ilike(certificates[c].name, exclude[k])}

CertificateQuery(exclude) ==
    {c \in DOMAIN certificates :
        /\ certificates[c].days <= LookaheadDays
        /\ certificates[c].notify
        /\ ~certificates[c].expired
        /\ ~certificates[c].revoked
        /\ \A k \in DOMAIN exclude : ~ilike(certificates[c].name, exclude[k])}

\* The loop of get_certificates over the query's rows q, from the i-th on.
RECURSIVE get_certificates_loop(_, _, _)
get_certificates_loop(q, i, certs) ==
    IF i > Len(q) THEN Outcome(certs, <<>>, <<>>)
    ELSE LET r == needs_expiration_notification(certificates[q[i]])
         IN IF r.raised THEN Raise
            ELSE get_certificates_loop(q, i + 1,
                     IF r.value # <<>> THEN Append(certs, q[i]) ELSE certs)

get_certificates(exclude) ==
    get_certificates_loop(InIdOrder(CertificateQuery(exclude)), 1, <<>>)

MaxOf(S) == CHOOSE m \in S : \A x \in S : x <= m

\* The query of get_expiring_authority_certificates.
AuthorityQuery ==
    {c \in DOMAIN certificates :
        /\ certificates[c].days < MaxOf(AuthorityExpirationIntervals) + 1
        /\ certificates[c].notify
        /\ ~certificates[c].expired
        /\ ~certificates[c].revoked
        /\ certificates[c].root_authority_id # 0
        /\ certificates[c].authority_id = 0}

get_expiring_authority_certificates ==
    LET q == InIdOrder(AuthorityQuery)
    IN SelectSeq(q, LAMBDA c : certificates[c].days \in AuthorityExpirationIntervals)

\* certificates[notification].append(certificate) on a defaultdict(list),
\* kept as the list of its items in insertion order.
AppendToGroup_always_new(groups, notification, certificate) ==
    Append(groups, [notification |-> notification, certificates |-> <<certificate>>])

AppendToGroup(groups, notification, certificate) ==
    IF \E g \in DOMAIN groups : groups[g].notification = notification
    THEN [g \in DOMAIN groups |->
            IF groups[g].notification = notification
            THEN [groups[g] EXCEPT !.certificates = Append(@, certificate)]
            ELSE groups[g]]
    ELSE Append(groups, [notification |-> notification, certificates |-> <<certificate>>])

\* The loops of get_eligible_certificates: over certs from the i-th on, and
\* over the notifications due for one certificate from the j-th on.
RECURSIVE eligible_inner(_, _, _, _)
eligible_inner(groups, certificate, due, j) ==
    IF j > Len(due) THEN groups
    ELSE eligible_inner(AppendToGroup(groups, due[j], certificate), certificate, due, j + 1)

RECURSIVE eligible_loop(_, _, _)
eligible_loop(certs, i, groups) ==
    IF i > Len(certs) THEN Outcome(groups, <<>>, <<>>)
    ELSE LET r == needs_expiration_notification(certificates[certs[i]])
         IN IF r.raised THEN Raise
            ELSE eligible_loop(certs, i + 1, eligible_inner(groups, certs[i], r.value, 1))

get_eligible_certificates(exclude) ==
    LET certs == get_certificates(exclude)
    IN IF certs.raised THEN Raise ELSE eligible_loop(certs.ret, 1, <<>>)

\* The loop of send_expiration_notifications over the groups, from the g-th
\* on; the g-th dispatch draws its plugins' outcomes from oc[2g-1], oc[2g].
RECURSIVE expiration_loop(_, _, _, _)
expiration_loop(groups, g, oc, acc) ==
    IF g > Len(groups) THEN acc
    ELSE LET notification == notifications[groups[g].notification]
             notification_data ==
                 [k \in DOMAIN groups[g].certificates |-> dump(groups[g].certificates[k])]
             email_recipients == get_recipients(notification.options, <<>>)
             r == send_plugin_notification("expiration", notification_data,
                      email_recipients, notification, <<oc[2 * g - 1], oc[2 * g]>>)
             success == acc.ret[1]
             failure == acc.ret[2]
         IN expiration_loop(groups, g + 1, oc,
                Outcome(IF r.ret = True
                        THEN <<success + Len(email_recipients), failure>>
                        ELSE <<success, failure + Len(email_recipients)>>,
                        acc.sends \o r.sends, acc.metrics \o r.metrics))

send_expiration_notifications(exclude, oc) ==
    LET groups == get_eligible_certificates(exclude)
    IN IF groups.raised THEN Raise
       ELSE expiration_loop(groups.ret, 1, oc, Outcome(<<0, 0>>, <<>>, <<>>))

\* itertools.groupby(list, key): the runs of consecutive items with equal
\* keys, keys[i] being the key of list[i]; from the i-th item on.
RECURSIVE groupby_loop(_, _, _, _)
groupby_loop(list, keys, i, runs) ==
    IF i > Len(list) THEN runs
    ELSE IF runs # <<>> /\ runs[Len(runs)].key = keys[i]
         THEN groupby_loop(list, keys, i + 1,
                  [runs EXCEPT ![Len(runs)].items = Append(@, list[i])])
         ELSE groupby_loop(list, keys, i + 1,
                  Append(runs, [key |-> keys[i], items |-> <<list[i]>>]))

groupby(list, keys) == groupby_loop(list, keys, 1, <<>>)

\* d[key] = value on a dict kept as the list of its items in insertion order.
SetItem(d, key, value) ==
    IF \E k \in DOMAIN d : d[k].key = key
    THEN [k \in DOMAIN d |-> IF d[k].key = key THEN [key |-> key, value |-> value] ELSE d[k]]
    ELSE Append(d, [key |-> key, value |-> value])

\* d[key], with the default of a defaultdict(dict).
GetItem(d, key) ==
    IF \E k \in DOMAIN d : d[k].key = key
    THEN d[CHOOSE k \in DOMAIN d : d[k].key = key].value
    ELSE <<>>

\* The loops of get_eligible_authority_certificates: over the runs of one
\* owner's certificates by interval, and over the runs by owner.
RECURSIVE authority_inner(_, _, _, _)
authority_inner(result, owner, interval_runs, j) ==
    IF j > Len(interval_runs) THEN result
    ELSE authority_inner(
             SetItem(result, owner,
                     SetItem(GetItem(result, owner), interval_runs[j].key,
                             interval_runs[j].items)),
             owner, interval_runs, j + 1)

RECURSIVE authority_loop(_, _, _)
authority_loop(owner_runs, i, result) ==
    IF i > Len(owner_runs) THEN result
    ELSE LET owner_certs == owner_runs[i].items
             interval_runs ==
                 groupby(owner_certs,
                         [k \in DOMAIN owner_certs |-> certificates[owner_certs[k]].days])
         IN authority_loop(owner_runs, i + 1,
                authority_inner(result, owner_runs[i].key, interval_runs, 1))

get_eligible_authority_certificates ==
    LET all_certs == get_expiring_authority_certificates
        owner_runs ==
            groupby(all_certs, [k \in DOMAIN all_certs |-> certificates[all_certs[k]].owner])
    IN authority_loop(owner_runs, 1, <<>>)

\* The (owner, interval, certificates) groups in the order the two loops of
\* send_authority_expiration_notifications visit them.
RECURSIVE AuthorityGroups(_, _)
AuthorityGroups(result, i) ==
    IF i > Len(result) THEN <<>>
    ELSE [j \in DOMAIN result[i].value |->
             [owner |-> result[i].key, interval |-> result[i].value[j].key,
              certificates |-> result[i].value[j].value]]
         \o AuthorityGroups(result, i + 1)

\* The loops of send_authority_expiration_notifications, from the g-th group
\* on; oc[g] is whether the default plugin's send() returns for it.
RECURSIVE authority_send_loop(_, _, _, _)
authority_send_loop(groups, g, oc, acc) ==
    IF g > Len(groups) THEN acc
    ELSE LET certs == groups[g].certificates
             notification_data == [k \in DOMAIN certs |-> dump(certs[k])]
             email_recipients == LEMUR_SECURITY_TEAM_EMAIL \o <<groups[g].owner>>
             r == send_default_notification("authority_expiration", notification_data,
                      email_recipients, <<Opt("interval", groups[g].interval)>>, oc[g])
             success == acc.ret[1]
             failure == acc.ret[2]
         IN authority_send_loop(groups, g + 1, oc,
                Outcome(IF r.ret = True
                        THEN <<Len(email_recipients), failure>>
                        ELSE <<success, Len(email_recipients)>>,
                        acc.sends \o r.sends, acc.metrics \o r.metrics))

send_authority_expiration_notifications(oc) ==
    authority_send_loop(AuthorityGroups(get_eligible_authority_certificates, 1), 1, oc,
                        Outcome(<<0, 0>>, <<>>, <<>>))

GetEligibleAuthorityCertificates ==
    Called("get_eligible_authority_certificates", <<>>,
           Outcome(get_eligible_authority_certificates, <<>>, <<>>))

SendAuthorityExpirationNotifications(oc) ==
    Called("send_authority_expiration_notifications", <<>>,
           send_authority_expiration_notifications(oc))

GetCertificates(exclude) ==
    Called("get_certificates", [exclude |-> exclude], get_certificates(exclude))

GetExpiringAuthorityCertificates ==
    Called("get_expiring_authority_certificates", <<>>,
           Outcome(get_expiring_authority_certificates, <<>>, <<>>))

GetEligibleCertificates(exclude) ==
    Called("get_eligible_certificates", [exclude |-> exclude],
           get_eligible_certificates(exclude))

SendExpirationNotifications(exclude, oc) ==
    Called("send_expiration_notifications", [exclude |-> exclude],
           send_expiration_notifications(exclude, oc))

----------------------------------------------------------------------------
\* The notification service.

\* f"DEFAULT_{base_name}".
DefaultLabel(base_name) ==
    CASE base_name = "alice" -> "DEFAULT_alice"
      [] base_name = "bob" -> "DEFAULT_bob"

\* get_by_label: the id of the notification with that label, 0 (no row) when
\* there is none.
get_by_label(label) ==
    IF \E id \in DOMAIN notifications : notifications[id].label = label
    THEN CHOOSE id \in DOMAIN notifications :
             /\ notifications[id].label = label
             /\ \A j \in DOMAIN notifications : notifications[j].label = label => id <= j
    ELSE 0

\* create: the new row; a notification is created active.
create(label, plugin_name, options) == Notification(label, TRUE, options, plugin_name)

\* create_default_notifications: [ret, table], the value returned and the
\* Notification table it leaves.
create_default_notifications_always_creates(base_name, recipients) ==
    IF recipients = <<>> THEN [ret |-> <<>>, table |-> notifications]
    ELSE LET options == <<Opt("recipients", recipients)>>
             name == DefaultLabel(base_name)
             new == create(name, LEMUR_DEFAULT_NOTIFICATION_PLUGIN, options)
         IN [ret |-> new, table |-> Append(notifications, new)]

create_default_notifications(base_name, recipients) ==
    IF recipients = <<>> THEN [ret |-> <<>>, table |-> notifications]
    ELSE LET options == <<Opt("recipients", recipients)>>
             name == DefaultLabel(base_name)
             existing == get_by_label(name)
             new == create(name, LEMUR_DEFAULT_NOTIFICATION_PLUGIN, options)
         IN IF existing # 0
            THEN [ret |-> notifications[existing], table |-> notifications]
            ELSE [ret |-> new, table |-> Append(notifications, new)]

CreateDefaultNotifications(base_name, recipients) ==
    LET r == create_default_notifications(base_name, recipients)
    IN /\ Len(notifications) <= MaxNotifs + 1
       /\ fn' = "create_default_notifications"
       /\ args' = [base_name |-> base_name, recipients |-> recipients]
       /\ ret' = r.ret
       /\ notifications' = r.table
       /\ raised' = FALSE
       /\ UNCHANGED <<certificates, endpoints, sends, metrics>>

\* delete(notification_id) of an existing notification.
Delete(notification_id) ==
    /\ notification_id \in DOMAIN notifications
    /\ fn' = "delete"
    /\ args' = [notification_id |-> notification_id]
    /\ ret' = None
    /\ notifications' =
           [i \in 1 .. Len(notifications) - 1 |->
               IF i < notification_id THEN notifications[i] ELSE notifications[i + 1]]
    /\ raised' = FALSE
    /\ UNCHANGED <<certificates, endpoints, sends, metrics>>

----------------------------------------------------------------------------
\* Deployment.

\* A row of the Endpoint table, as far as rotation reads it: the id of the
\* certificate attached.
Endpoint(certificate) == [certificate |-> certificate]

\* What rotate_certificate leaves behind.
Rotated(r, e, c) == [raised |-> r, endpoints |-> e, certificates |-> c]

\* rotate_certificate on the endpoint-th row of the Endpoint table and the
\* new_cert-th row of the Certificate table; `ok` is whether the source
\* plugin's update_endpoint returns.
rotate_certificate_stores_first(endpoint, new_cert, ok) ==
    LET old_cert == endpoints[endpoint].certificate
        attached == [endpoints EXCEPT ![endpoint].certificate = new_cert]
    IN IF ~ok THEN Rotated(TRUE, attached, certificates)
       ELSE Rotated(FALSE, attached, [certificates EXCEPT ![old_cert].notify = FALSE])

rotate_certificate(endpoint, new_cert, ok) ==
    LET old_cert == endpoints[endpoint].certificate
    IN IF ~ok THEN Rotated(TRUE, endpoints, certificates)
       ELSE Rotated(FALSE,
                    [endpoints EXCEPT ![endpoint].certificate = new_cert],
                    [certificates EXCEPT ![old_cert].notify = FALSE])

RotateCertificate(endpoint, new_cert, ok) ==
    LET r == rotate_certificate(endpoint, new_cert, ok)
    IN /\ fn' = "rotate_certificate"
       /\ args' = [endpoint |-> endpoint, new_cert |-> new_cert]
       /\ ret' = None
       /\ raised' = r.raised
       /\ endpoints' = r.endpoints
       /\ certificates' = r.certificates
       /\ UNCHANGED <<notifications, sends, metrics>>

----------------------------------------------------------------------------
\* Inputs.

Intervals == 1 .. MaxInterval
Slugs == {EmailSlug, TestSlug}
NotificationLabels == <<"n1", "n2", "n3", "n4">>
CertificateNames == <<<<"w", "e", "b">>, <<"A", "p", "i">>, <<"a", "p", "p">>, <<"d", "b">>>>
Owners == {"owner1@example.com", "owner2@example.com"}
\* Whether each send() of a call returns: one entry per send the call can make.
Outcomes(n) == [1 .. n -> BOOLEAN]

\* Every option list of the interval matching: empty, or an interval, a unit
\* and one recipient.
AllOptions ==
    {<<>>} \cup {ExpirationOptions(i, u, <<"a@example.com">>) : i \in Intervals, u \in Units}

\* The days at which some interval is due, and a day at which none is.
DueDays ==
    {0} \cup Intervals \cup {i * DaysPerWeek : i \in Intervals}
        \cup {i * DaysPerMonth : i \in Intervals}

\* The sequences over S of length at most n.
SeqsUpTo(S, n) == UNION {[1 .. k -> S] : k \in 0 .. n}

\* The lists without repetition of ids of 1 .. n, in increasing order.
IdLists(n) == {InIdOrder(S) : S \in SUBSET (1 .. n)}

NoCall ==
    /\ fn = "none"
    /\ args = <<>>
    /\ ret = None
    /\ raised = FALSE
    /\ sends = <<>>
    /\ metrics = <<>>

\* Interval matching: one certificate holding every notification of the
\* table, in table order.
InitNeeds ==
    /\ notifications \in
         SeqsUpTo({Notification("n", a, o, EmailSlug) : a \in BOOLEAN, o \in AllOptions},
                  MaxNotifs)
    /\ \E d \in DueDays :
         certificates =
           <<Certificate(CertificateNames[1], "owner1@example.com", d, TRUE, FALSE, FALSE,
                         FALSE, [i \in 1 .. Len(notifications) |-> i])>>
    /\ endpoints = <<>>
    /\ NoCall

NextNeeds == \E c \in DOMAIN certificates : NeedsExpirationNotification(c)

SpecNeeds == InitNeeds /\ [][NextNeeds]_vars

\* The option lists of the scans: none, due at 7 days in two ways, and a
\* unit that is not recognized.
ScanOptions ==
    {<<>>,
     ExpirationOptions(7, "days", <<"a@example.com">>),
     ExpirationOptions(1, "weeks", <<"a@example.com", "b@example.com">>),
     ExpirationOptions(1, "years", <<"a@example.com">>)}
ScanDays == {7, 30}
Excludes == {<<>>, <<<<"x">>, <<"E", "B">>>>}

\* The tables of n notifications n1, n2, ... with options of O.
NotificationTables(n, O) ==
    {t \in [1 .. n -> {Notification(l, a, o, s) :
                         l \in Range(NotificationLabels), a \in BOOLEAN,
                         o \in O, s \in Slugs}] :
         \A i \in 1 .. n : t[i].label = NotificationLabels[i]}

\* The tables of k certificates, the i-th named CertificateNames[i], of C.
CertificateTables(k, C) ==
    {t \in [1 .. k -> C] : \A i \in 1 .. k : t[i].name = CertificateNames[i]}

\* The expiration scan: certificates that pass the flags of the query, each
\* with some of the notifications of the table.
InitScan ==
    /\ \E n \in 0 .. MaxNotifs :
         /\ notifications \in NotificationTables(n, ScanOptions)
         /\ \E k \in 0 .. MaxCerts :
              certificates \in
                CertificateTables(k,
                    {Certificate(nm, "owner1@example.com", d, TRUE, FALSE, FALSE, FALSE, l) :
                        nm \in Range(CertificateNames), d \in ScanDays, l \in IdLists(n)})
    /\ endpoints = <<>>
    /\ NoCall

\* The handlers of the scans read the tables and leave them alone: a
\* behaviour is one call on the tables drawn.
FirstCall == fn = "none"

NextScan ==
    \/ \E c \in DOMAIN certificates : FirstCall /\ NeedsExpirationNotification(c)
    \/ \E e \in Excludes : FirstCall /\ GetCertificates(e)
    \/ \E e \in Excludes : FirstCall /\ GetEligibleCertificates(e)
    \/ \E e \in Excludes, oc \in Outcomes(2 * MaxNotifs) :
         FirstCall /\ SendExpirationNotifications(e, oc)

SpecScan == InitScan /\ [][NextScan]_vars

\* The queries: one notification due at 7 days, and certificates with every
\* combination of flags, CA or not, due or not.
EligibleDays == {7, 30, 180}
InitEligible ==
    /\ notifications \in NotificationTables(1, {ExpirationOptions(7, "days", <<"a@example.com">>)})
    /\ \E k \in 0 .. MaxCerts :
         certificates \in
           CertificateTables(k,
               {Certificate(nm, "owner1@example.com", d, nf, ex, rv, ca, <<1>>) :
                   nm \in Range(CertificateNames), d \in EligibleDays, nf \in BOOLEAN,
                   ex \in BOOLEAN, rv \in BOOLEAN, ca \in BOOLEAN})
    /\ endpoints = <<>>
    /\ NoCall

NextEligible ==
    \/ \E e \in Excludes : FirstCall /\ GetCertificates(e)
    \/ \E e \in Excludes : FirstCall /\ GetEligibleCertificates(e)
    \/ FirstCall /\ GetExpiringAuthorityCertificates
    \/ FirstCall /\ GetEligibleAuthorityCertificates

SpecEligible == InitEligible /\ [][NextEligible]_vars

\* The authority scan: CA certificates of two owners, at both configured
\* intervals or at none, with the notify flag set or not.
AuthorityDays == {365, 180, 200}
InitAuthority ==
    /\ notifications = <<>>
    /\ \E k \in 0 .. MaxCACerts :
         certificates \in
           CertificateTables(k,
               {Certificate(nm, o, d, nf, FALSE, FALSE, TRUE, <<>>) :
                   nm \in Range(CertificateNames), o \in Owners, d \in AuthorityDays,
                   nf \in BOOLEAN})
    /\ endpoints = <<>>
    /\ NoCall

NextAuthority ==
    \/ FirstCall /\ GetExpiringAuthorityCertificates
    \/ FirstCall /\ GetEligibleAuthorityCertificates
    \/ \E oc \in Outcomes(MaxCACerts) :
         FirstCall /\ SendAuthorityExpirationNotifications(oc)

SpecAuthority == InitAuthority /\ [][NextAuthority]_vars

\* Dispatch: a table of notifications and one certificate holding some of
\* them, due at 7 days.
DispatchOptions ==
    {<<>>,
     ExpirationOptions(7, "days", <<"a@example.com">>),
     ExpirationOptions(1, "weeks", <<"a@example.com", "b@example.com">>)}
EventTypes == {"revocation", "failed"}

InitDispatch ==
    /\ \E n \in 0 .. MaxNotifs :
         /\ notifications \in NotificationTables(n, DispatchOptions)
         /\ certificates \in
              CertificateTables(1,
                  {Certificate(nm, "owner1@example.com", 7, TRUE, FALSE, FALSE, FALSE, l) :
                      nm \in Range(CertificateNames), l \in IdLists(n)})
    /\ endpoints = <<>>
    /\ NoCall

\* The notification rows of a certificate, in the order of its list.
NotificationsOf(c) ==
    [i \in DOMAIN certificates[c].notifications |->
        notifications[certificates[c].notifications[i]]]

NextDispatch ==
    \/ \E id \in DOMAIN notifications, t \in EventTypes, oc \in Outcomes(2) :
         /\ FirstCall
         /\ notifications[id].options # <<>>
         /\ SendPluginNotification(t, dump(1),
                get_recipients(notifications[id].options, <<>>), notifications[id], oc)
    \/ \E t \in EventTypes, ok \in BOOLEAN :
         FirstCall /\ SendDefaultNotification(t, dump(1), <<certificates[1].owner>>, None, ok)
    \/ \E t \in EventTypes, oc \in Outcomes(2) :
         FirstCall /\ SendPluginNotificationWithEmailFallback(dump(1), NotificationsOf(1), t, oc)
    \/ \E oc \in Outcomes(2 * MaxNotifs) :
         FirstCall /\ SendExpirationNotifications(<<>>, oc)

SpecDispatch == InitDispatch /\ [][NextDispatch]_vars

\* The notification service: a table holding a custom notification, an
\* earlier default notification of alice, both or neither.
BaseNames == {"alice", "bob"}
ServiceRecipients == {<<>>, <<"a@example.com">>, <<"a@example.com", "b@example.com">>}
InitService ==
    /\ notifications \in
         {<<>>,
          <<Notification("custom", TRUE, <<Opt("recipients", <<"b@example.com">>)>>, TestSlug)>>,
          <<Notification("DEFAULT_alice", FALSE, <<Opt("recipients", <<"b@example.com">>)>>,
                         EmailSlug)>>,
          <<Notification("custom", TRUE, <<Opt("recipients", <<"b@example.com">>)>>, TestSlug),
            Notification("DEFAULT_alice", FALSE, <<Opt("recipients", <<"b@example.com">>)>>,
                         EmailSlug)>>}
    /\ certificates = <<>>
    /\ endpoints = <<>>
    /\ NoCall

NextService ==
    \/ \E b \in BaseNames, r \in ServiceRecipients : CreateDefaultNotifications(b, r)
    \/ \E id \in DOMAIN notifications : Delete(id)

SpecService == InitService /\ [][NextService]_vars

\* Rotation: certificates with any notify flag, and endpoints each with one
\* of them attached; calls follow one another on the stored state.
InitRotate ==
    /\ notifications = <<>>
    /\ \E k \in 1 .. MaxCerts :
         /\ certificates \in CertificateTables(k,
                {Certificate(nm, "owner1@example.com", LookaheadDays, nf, FALSE, FALSE, FALSE, <<>>) :
                    nm \in Range(CertificateNames), nf \in BOOLEAN})
         /\ endpoints \in {e \in SeqsUpTo({Endpoint(c) : c \in 1 .. k}, MaxEndpoints) : e # <<>>}
    /\ NoCall

NextRotate ==
    \E e \in DOMAIN endpoints, c \in DOMAIN certificates, ok \in BOOLEAN :
        RotateCertificate(e, c, ok)

SpecRotate == InitRotate /\ [][NextRotate]_vars

----------------------------------------------------------------------------
\* Notifications of revocation, rotation and failed rotation.

\* The days before expiry at which a failed rotation is reported.
RotationFailureDays == 7

\* A function that returned without a send.
Nothing == Outcome(None, <<>>, <<>>)

\* send_revocation_notification of the certificate-th row.
send_revocation_notification(certificate, oc) ==
    IF ~certificates[certificate].notify THEN Nothing
    ELSE send_plugin_notification_with_email_fallback(
             dump(certificate), NotificationsOf(certificate), "revocation", oc)

\* send_rotation_failure_notification of the certificate-th row.
send_rotation_failure_notification(certificate, oc) ==
    IF ~certificates[certificate].notify THEN Nothing
    ELSE IF certificates[certificate].days # RotationFailureDays THEN Nothing
    ELSE send_plugin_notification_with_email_fallback(
             dump(certificate), NotificationsOf(certificate), "failed", oc)

\* The loop of send_rotation_notification over the notifications from the
\* i-th on: the call returns at the first that is active, configured and
\* enabled for rotation.
RECURSIVE rotation_loop(_, _, _, _)
rotation_loop(list, i, data, oc) ==
    IF i > Len(list) THEN Nothing
    ELSE LET notification == list[i]
         IN IF notification.active /\ notification.options # <<>>
                   /\ notification.enable_rotation
            THEN send_plugin_notification("rotation", data,
                                          get_recipients(notification.options, <<>>),
                                          notification, oc)
            ELSE rotation_loop(list, i + 1, data, oc)

\* send_rotation_notification of the certificate-th row.
send_rotation_notification_ignores_notify(certificate, oc) ==
    LET data == [security_email |-> LEMUR_SECURITY_TEAM_EMAIL] @@ dump(certificate)
    IN rotation_loop(NotificationsOf(certificate), 1, data, oc)

send_rotation_notification(certificate, oc) ==
    IF ~certificates[certificate].notify THEN Nothing
    ELSE LET data == [security_email |-> LEMUR_SECURITY_TEAM_EMAIL] @@ dump(certificate)
         IN rotation_loop(NotificationsOf(certificate), 1, data, oc)

SendRevocationNotification(certificate, oc) ==
    Called("send_revocation_notification", [certificate |-> certificate],
           send_revocation_notification(certificate, oc))

SendRotationFailureNotification(certificate, oc) ==
    Called("send_rotation_failure_notification", [certificate |-> certificate],
           send_rotation_failure_notification(certificate, oc))

SendRotationNotification(certificate, oc) ==
    Called("send_rotation_notification", [certificate |-> certificate],
           send_rotation_notification(certificate, oc))

\* One certificate, notifying or not, at the day of the failure report or
\* another, with some of the notifications of the table; each notification
\* is enabled for rotation or not.
EventOptions == {<<>>, ExpirationOptions(1, "weeks", <<"a@example.com">>)}
EventDays == {RotationFailureDays, DaysPerMonth}
RotationTables(n) ==
    {[i \in 1 .. n |-> [t[i] EXCEPT !.enable_rotation = r[i]]] :
         t \in NotificationTables(n, EventOptions), r \in [1 .. n -> BOOLEAN]}

InitEvents ==
    /\ \E n \in 0 .. MaxNotifs :
         /\ notifications \in RotationTables(n)
         /\ certificates \in CertificateTables(1,
                {Certificate(nm, "owner1@example.com", d, nf, FALSE, FALSE, FALSE, l) :
                    nm \in Range(CertificateNames), d \in EventDays,
                    nf \in BOOLEAN, l \in IdLists(n)})
    /\ endpoints = <<>>
    /\ NoCall

NextEvents ==
    \/ \E oc \in Outcomes(2) : FirstCall /\ SendRevocationNotification(1, oc)
    \/ \E oc \in Outcomes(2) : FirstCall /\ SendRotationFailureNotification(1, oc)
    \/ \E oc \in Outcomes(2) : FirstCall /\ SendRotationNotification(1, oc)

SpecEvents == InitEvents /\ [][NextEvents]_vars

----------------------------------------------------------------------------
\* Properties.

RECURSIVE SumSeq(_)
SumSeq(q) == IF q = <<>> THEN 0 ELSE q[1] + SumSeq(Tail(q))

\* The interval of a notification in days as the documentation gives it.
StatedIntervalDays(id) ==
    LET interval == get_plugin_option("interval", notifications[id].options)
        unit == get_plugin_option("unit", notifications[id].options)
    IN CASE unit = "days" -> interval
         [] unit = "weeks" -> interval * 7
         [] unit = "months" -> interval * 30
         [] OTHER -> -1

\* The notification triggers for the certificate today.
Triggers(c, id) ==
    /\ notifications[id].active
    /\ notifications[id].options # <<>>
    /\ StatedIntervalDays(id) = certificates[c].days

\* The notification is active and configured with a unit that is not one of
\* days, weeks, months.
BadUnit(id) ==
    /\ notifications[id].active
    /\ notifications[id].options # <<>>
    /\ get_plugin_option("unit", notifications[id].options) \notin {"days", "weeks", "months"}

HasBadUnit(c) == \E id \in Range(certificates[c].notifications) : BadUnit(id)

\* C1: needs_expiration_notification returns exactly the certificate's
\* notifications that are active, have options and whose interval in days
\* equals the remaining days, in the order of certificate.notifications.
C1_ExactMatch ==
    (fn = "needs_expiration_notification" /\ ~raised) =>
        LET c == args.certificate
            list == certificates[c].notifications
        IN /\ \A k \in DOMAIN ret : ret[k] \in Range(list) /\ Triggers(c, ret[k])
           /\ \A j \in DOMAIN list : Triggers(c, list[j]) => list[j] \in Range(ret)
           /\ \E f \in [DOMAIN ret -> DOMAIN list] :
                /\ \A k \in DOMAIN ret : ret[k] = list[f[k]]
                /\ \A k, m \in DOMAIN ret : k < m => f[k] < f[m]

\* A certificate with two notifications of which only the second, given in
\* months, is due.
C1_Witness ==
    /\ fn = "needs_expiration_notification"
    /\ ~raised
    /\ Len(certificates[1].notifications) = 2
    /\ ret = <<2>>
    /\ get_plugin_option("unit", notifications[2].options) = "months"
    /\ notifications[1].active
    /\ notifications[1].options # <<>>

\* The certificate is expired, revoked or not to be notified.
Flagged(c) == certificates[c].expired \/ certificates[c].revoked \/ ~certificates[c].notify

\* C2: no certificate flagged expired, revoked or notify=False is in the
\* result of get_certificates or get_expiring_authority_certificates, nor in
\* a group of get_eligible_certificates or
\* get_eligible_authority_certificates.
C2_NoFlaggedCertificate ==
    /\ fn \in {"get_certificates", "get_expiring_authority_certificates"} =>
           \A k \in DOMAIN ret : ~Flagged(ret[k])
    /\ fn = "get_eligible_certificates" =>
           \A g \in DOMAIN ret : \A k \in DOMAIN ret[g].certificates :
               ~Flagged(ret[g].certificates[k])
    /\ fn = "get_eligible_authority_certificates" =>
           \A o \in DOMAIN ret : \A i \in DOMAIN ret[o].value :
               \A k \in DOMAIN ret[o].value[i].value : ~Flagged(ret[o].value[i].value[k])

\* A revoked certificate whose notification is due today is left out of a
\* result that holds another certificate.
C2_Witness ==
    /\ fn = "get_certificates"
    /\ Len(certificates) = 2
    /\ certificates[1].revoked
    /\ certificates[1].notify
    /\ ~certificates[1].expired
    /\ Triggers(1, 1)
    /\ ret = <<2>>

\* The sends of a call made through the default notification plugin.
DefaultSends == {k \in DOMAIN sends : sends[k].by = "send_default_notification"}

\* The k-th send is a default send of the event type, data and recipients
\* of the send_plugin_notification call.
IsSecondary(k) ==
    /\ sends[k].by = "send_default_notification"
    /\ sends[k].plugin = LEMUR_DEFAULT_NOTIFICATION_PLUGIN
    /\ sends[k].type = args.event_type
    /\ sends[k].data = args.data
    /\ sends[k].targets = args.recipients

\* C3, as claimed: every call of send_plugin_notification with a plugin
\* other than 'email-notification' attempts a secondary send through the
\* default plugin, and a call with 'email-notification' attempts none.
C3_AlwaysSecondary ==
    fn = "send_plugin_notification" =>
        IF args.notification.slug # EmailSlug
        THEN \E k \in DOMAIN sends : IsSecondary(k)
        ELSE DefaultSends = {}

\* C3, amended: the secondary send is attempted exactly when the plugin is
\* not 'email-notification' and the plugin's own send did not raise.
C3_SecondaryAfterSend ==
    fn = "send_plugin_notification" =>
        /\ sends[1].by = "send_plugin_notification"
        /\ sends[1].plugin = args.notification.slug
        /\ IF args.notification.slug # EmailSlug /\ sends[1].ok
           THEN Len(sends) = 2 /\ IsSecondary(2)
           ELSE Len(sends) = 1

\* A send through the test plugin returned and the default send followed.
C3_Witness ==
    /\ fn = "send_plugin_notification"
    /\ args.notification.slug = TestSlug
    /\ sends[1].ok
    /\ Len(sends) = 2
    /\ ~sends[2].ok

\* The metrics a function emitted itself.
OwnMetrics(f) == SelectSeq(metrics, LAMBDA m : m.by = f)
SendsBy(f) == SelectSeq(sends, LAMBDA x : x.by = f)

\* C4: when a plugin's send raises, send_plugin_notification and
\* send_default_notification end normally with None and a failure metric, and
\* send_expiration_notifications ends normally with its counters.
C4_FailureContained ==
    /\ fn \in {"send_plugin_notification", "send_default_notification"} =>
           /\ ~raised
           /\ (\E k \in DOMAIN sends : ~sends[k].ok) =>
                  /\ ret = None
                  /\ Len(OwnMetrics(fn)) = 1
                  /\ metrics[Len(metrics)].by = fn
                  /\ metrics[Len(metrics)].status = FAILURE_METRIC_STATUS
    /\ fn = "send_expiration_notifications" =>
           /\ ~raised
           /\ (\A k \in DOMAIN sends : ~sends[k].ok) =>
                  /\ ret[1] = 0
                  /\ ret[2] =
                       SumSeq([k \in DOMAIN sends |-> Len(sends[k].targets)])

\* Every plugin send of an expiration run over two due notifications raised.
C4_Witness ==
    /\ fn = "send_expiration_notifications"
    /\ Len(sends) = 2
    /\ ~sends[1].ok
    /\ ~sends[2].ok
    /\ ret = <<0, 3>>

\* C5: needs_expiration_notification raises exactly when the certificate has
\* an active, configured notification with an unrecognized unit; the scans
\* raise exactly when a certificate of the query has one, and then no plugin
\* send was made.
C5_BadUnitRaises ==
    /\ fn = "needs_expiration_notification" => (raised <=> HasBadUnit(args.certificate))
    /\ fn \in {"get_certificates", "get_eligible_certificates",
               "send_expiration_notifications"} =>
           /\ raised <=> \E c \in CertificateQuery(args.exclude) : HasBadUnit(c)
           /\ raised => sends = <<>>

\* An expiration run that found a due notification on the first certificate
\* and then a bad unit on the second one.
C5_Witness ==
    /\ fn = "send_expiration_notifications"
    /\ raised
    /\ Len(certificates) = 2
    /\ Triggers(1, 1)
    /\ ~HasBadUnit(1)
    /\ HasBadUnit(2)
    /\ certificates[2].days # 1

\* Some notification given to the fallback is active and configured.
SomeActive == \E k \in DOMAIN args.notifications :
                  args.notifications[k].active /\ args.notifications[k].options # <<>>

\* C6: send_plugin_notification_with_email_fallback makes exactly one send,
\* through the default plugin to the owner followed by the security team,
\* when no notification is active and configured; otherwise its first send
\* goes through a notification's plugin and the only default send there can
\* be is the secondary one of that dispatch.
C6_EmailFallback ==
    fn = "send_plugin_notification_with_email_fallback" =>
        IF ~SomeActive
        THEN /\ Len(sends) = 1
             /\ sends[1].by = "send_default_notification"
             /\ sends[1].plugin = LEMUR_DEFAULT_NOTIFICATION_PLUGIN
             /\ sends[1].type = args.notification_type
             /\ sends[1].targets = <<args.data.owner>> \o LEMUR_SECURITY_TEAM_EMAIL
        ELSE /\ sends[1].by = "send_plugin_notification"
             /\ \A k \in DefaultSends :
                    k = 2 /\ sends[1].ok /\ sends[k].targets = sends[1].targets

\* The certificate's only notifications are inactive or without options, and
\* the owner and the security team were written to.
C6_Witness ==
    /\ fn = "send_plugin_notification_with_email_fallback"
    /\ Len(args.notifications) = 2
    /\ ~args.notifications[1].active
    /\ args.notifications[2].options = <<>>
    /\ Len(sends) = 1
    /\ sends[1].targets = <<"owner1@example.com", "security@example.com">>

\* The certificates of the query for which the notification triggers, in id
\* order.
DueFor(id) ==
    InIdOrder({c \in CertificateQuery(args.exclude) :
                  id \in Range(certificates[c].notifications) /\ Triggers(c, id)})

\* The recipients a notification is configured with.
RecipientCount(id) ==
    Cardinality(Range(get_plugin_option("recipients", notifications[id].options)))

\* C7: send_expiration_notifications dispatches each due notification once,
\* with the data of every certificate it is due for, and returns the
\* recipient counts of the dispatches that returned True and of the others.
C7_OncePerNotification ==
    (fn = "send_expiration_notifications" /\ ~raised) =>
        LET dispatched == SendsBy("send_plugin_notification")
            outcome == OwnMetrics("send_plugin_notification")
            due == {id \in DOMAIN notifications : DueFor(id) # <<>>}
            count(st) == SumSeq([k \in DOMAIN dispatched |->
                                    IF outcome[k].status = st
                                    THEN Len(dispatched[k].targets) ELSE 0])
        IN /\ Len(outcome) = Len(dispatched)
           /\ \A id \in due :
                \E k \in DOMAIN dispatched :
                    /\ dispatched[k].notification = notifications[id].label
                    /\ dispatched[k].type = "expiration"
                    /\ dispatched[k].data = [j \in DOMAIN DueFor(id) |-> dump(DueFor(id)[j])]
                    /\ Len(dispatched[k].targets) = RecipientCount(id)
                    /\ \A m \in DOMAIN dispatched :
                          dispatched[m].notification = notifications[id].label => m = k
           /\ \A k \in DOMAIN dispatched :
                \E id \in due : dispatched[k].notification = notifications[id].label
           /\ ret = <<count(SUCCESS_METRIC_STATUS), count(FAILURE_METRIC_STATUS)>>
           /\ ret[1] + ret[2] =
                SumSeq([k \in DOMAIN InIdOrder(due) |-> RecipientCount(InIdOrder(due)[k])])

\* Two notifications are due, the first for both certificates; one dispatch
\* succeeded and one failed.
C7_Witness ==
    /\ fn = "send_expiration_notifications"
    /\ ~raised
    /\ Len(DueFor(1)) = 2
    /\ Len(DueFor(2)) = 1
    /\ ret = <<2, 1>>

\* C8: send_authority_expiration_notifications returns the recipient counts
\* summed over the groups whose send succeeded and over those whose send
\* failed.
C8_AuthorityTally ==
    fn = "send_authority_expiration_notifications" =>
        /\ ret[1] = SumSeq([k \in DOMAIN sends |->
                               IF sends[k].ok THEN Len(sends[k].targets) ELSE 0])
        /\ ret[2] = SumSeq([k \in DOMAIN sends |->
                               IF sends[k].ok THEN 0 ELSE Len(sends[k].targets)])

\* The certificates of result[owner][interval].
GroupOf(result, owner, interval) == GetItem(GetItem(result, owner), interval)

\* C9: every certificate of get_expiring_authority_certificates is in exactly
\* one list of get_eligible_authority_certificates, the one of its owner and
\* its remaining days.
C9_AllGrouped ==
    fn = "get_eligible_authority_certificates" =>
        \A c \in Range(get_expiring_authority_certificates) :
            /\ c \in Range(GroupOf(ret, certificates[c].owner, certificates[c].days))
            /\ \A o \in DOMAIN ret : \A i \in DOMAIN ret[o].value :
                   c \in Range(ret[o].value[i].value) =>
                       /\ ret[o].key = certificates[c].owner
                       /\ ret[o].value[i].key = certificates[c].days

\* The notifications labelled as the default of a base name.
Labelled(table, label) == {id \in DOMAIN table : table[id].label = label}

\* C10: create_default_notifications returns the notification labelled
\* DEFAULT_<base_name> when there is one and creates nothing; otherwise it
\* creates one; with no recipients it returns [] and creates nothing. No
\* label is ever held by two notifications.
C10_Idempotent ==
    /\ [](\A b \in BaseNames : Cardinality(Labelled(notifications, DefaultLabel(b))) <= 1)
    /\ [](fn = "create_default_notifications" /\ args.recipients # <<>> =>
             /\ Cardinality(Labelled(notifications, DefaultLabel(args.base_name))) = 1
             /\ ret \in Range(notifications)
             /\ ret.label = DefaultLabel(args.base_name))
    /\ [][fn' = "create_default_notifications" =>
             LET had == Labelled(notifications, DefaultLabel(args'.base_name))
             IN IF args'.recipients = <<>>
                THEN ret' = <<>> /\ notifications' = notifications
                ELSE IF had # {}
                     THEN /\ notifications' = notifications
                          /\ \E id \in had : ret' = notifications[id]
                     ELSE /\ Len(notifications') = Len(notifications) + 1
                          /\ SubSeq(notifications', 1, Len(notifications)) = notifications
                          /\ ret' = notifications'[Len(notifications')]]_vars

\* A second call for alice, with other recipients, returned the notification
\* of the first call.
C10_Witness ==
    /\ fn = "create_default_notifications"
    /\ args.base_name = "alice"
    /\ args.recipients = <<"a@example.com", "b@example.com">>
    /\ ret.active
    /\ get_plugin_option("recipients", ret.options) = <<"a@example.com">>
    /\ Cardinality(Labelled(notifications, "DEFAULT_alice")) = 1

\* Whether the sends of a call of send_plugin_notification went through: the
\* plugin's own send returned and, for a plugin other than
\* 'email-notification', so did the secondary send of the default plugin.
Delivered ==
    /\ sends[1].ok
    /\ args.notification.slug # EmailSlug => Len(sends) = 2 /\ sends[2].ok

\* C11: send_plugin_notification emits exactly one metric of its own, after
\* any metric of the secondary send; it returns True exactly when that metric
\* carries the success status, which is exactly when its sends went through,
\* and otherwise it returns None and the metric carries the failure status.
C11_ReturnMatchesMetric ==
    fn = "send_plugin_notification" =>
        LET own == OwnMetrics("send_plugin_notification")
        IN /\ Len(own) = 1
           /\ metrics[Len(metrics)] = own[1]
           /\ own[1].event_type = args.event_type
           /\ own[1].plugin = args.notification.slug
           /\ ~raised
           /\ IF Delivered
              THEN ret = True /\ own[1].status = SUCCESS_METRIC_STATUS
              ELSE ret = None /\ own[1].status = FAILURE_METRIC_STATUS

\* The test plugin's send returned, the secondary send returned None, and the
\* call returned None with a failure metric after the secondary's own.
C11_Witness ==
    /\ fn = "send_plugin_notification"
    /\ args.notification.slug = TestSlug
    /\ Len(sends) = 2
    /\ sends[1].ok
    /\ ~sends[2].ok
    /\ ret = None
    /\ Len(metrics) = 2
    /\ metrics[2].status = FAILURE_METRIC_STATUS

\* The endpoint and the certificates of a step that is a call of
\* rotate_certificate: the endpoint given, the certificate given, and the
\* certificate attached before the call.
RotatedEndpoint == args'.endpoint
NewCert == args'.new_cert
OldCert == endpoints[RotatedEndpoint].certificate

\* What a call of rotate_certificate does to the rows it is not about, and
\* when update_endpoint raises: nothing, and the exception reaches the caller
\* exactly when update_endpoint raised.
RotateFrame ==
    /\ \A e \in DOMAIN endpoints : e # RotatedEndpoint => endpoints'[e] = endpoints[e]
    /\ \A c \in DOMAIN certificates : c # OldCert => certificates'[c] = certificates[c]
    /\ raised' => endpoints' = endpoints /\ certificates' = certificates
    /\ ~raised' => /\ endpoints'[RotatedEndpoint].certificate = NewCert
                   /\ ~certificates'[OldCert].notify

\* C12, as claimed: a call that returns leaves new_cert attached and the
\* certificate attached before with notify False, a call in which
\* update_endpoint raises changes nothing, and no call modifies the notify
\* flag of new_cert.
C12_NewCertUntouched ==
    [][fn' = "rotate_certificate" =>
           /\ RotateFrame
           /\ certificates'[NewCert].notify = certificates[NewCert].notify]_vars

\* C12, amended: the notify flag of new_cert is left alone when new_cert is
\* not the certificate attached before the call; when it is, the call that
\* returns sets it to False like that of any certificate attached before.
C12_RotateThenStore ==
    [][fn' = "rotate_certificate" =>
           /\ RotateFrame
           /\ certificates'[NewCert].notify =
                  IF NewCert = OldCert /\ ~raised' THEN FALSE
                  ELSE certificates[NewCert].notify]_vars

\* The first endpoint was rotated to the second certificate, which still
\* notifies, and the first certificate no longer does.
C12_Witness ==
    /\ fn = "rotate_certificate"
    /\ ~raised
    /\ args = [endpoint |-> 1, new_cert |-> 2]
    /\ endpoints[1].certificate = 2
    /\ ~certificates[1].notify
    /\ certificates[2].notify

\* Whether a notification qualifies for the send of the function called:
\* active and configured, and for rotation also enabled for it.
Qualifies(n) ==
    /\ n.active
    /\ n.options # <<>>
    /\ fn = "send_rotation_notification" => n.enable_rotation

\* The places of the qualifying notifications in the list of the certificate
\* the function was called on.
Qualifying ==
    {i \in DOMAIN NotificationsOf(args.certificate) :
         Qualifies(NotificationsOf(args.certificate)[i])}

\* Whether the function called gets past its early returns.
Proceeds ==
    /\ certificates[args.certificate].notify
    /\ fn = "send_rotation_failure_notification" =>
           certificates[args.certificate].days = RotationFailureDays

\* C13: a call of send_rotation_notification, or of
\* send_plugin_notification_with_email_fallback through
\* send_revocation_notification or send_rotation_failure_notification, makes
\* at most one call of send_plugin_notification, and makes it for the first
\* qualifying notification of the certificate's list; no other notification
\* of the list receives a send, and a certificate with notify False causes no
\* send and no metric at all.
C13_FirstQualifyingOnly ==
    fn \in {"send_rotation_notification", "send_revocation_notification",
            "send_rotation_failure_notification"} =>
        LET list == NotificationsOf(args.certificate)
            P == SendsBy("send_plugin_notification")
            first == CHOOSE i \in Qualifying : \A j \in Qualifying : i <= j
        IN /\ Len(P) <= 1
           /\ Len(P) = 1 <=> Proceeds /\ Qualifying # {}
           /\ Len(P) = 1 =>
                  /\ sends[1] = P[1]
                  /\ P[1].notification = list[first].label
                  /\ P[1].plugin = list[first].slug
           /\ \A k \in DOMAIN sends :
                  sends[k].by # "send_plugin_notification" => sends[k].notification = None
           /\ ~certificates[args.certificate].notify => sends = <<>> /\ metrics = <<>>
           /\ fn = "send_rotation_notification" /\ Qualifying = {} => sends = <<>>

\* A rotation notice for a certificate of two qualifying notifications went
\* to the first only.
C13_Witness ==
    /\ fn = "send_rotation_notification"
    /\ Qualifying = {1, 2}
    /\ Len(SendsBy("send_plugin_notification")) = 1
    /\ sends[1].notification = "n1"
    /\ \A k \in DOMAIN sends : sends[k].notification # "n2"

====
